---------------------------- MODULE Spec2Model ----------------------------
(***************************************************************************)
(* A model of calico/datamodel_v1.py: the etcd key naming scheme of the    *)
(* Calico v1 data model, its key builders, its key matchers and the        *)
(* EndpointId value type.                                                  *)
(*                                                                         *)
(* Strings.  A Python 2 string is modelled as a sequence of units.  A unit *)
(* is a one-character TLA+ string for an ASCII character, "U+00E9" for the *)
(* non-ASCII code point U+00E9 (it only occurs in a `unicode` object), and *)
(* "0xC3", "0xA9" for the two non-ASCII bytes of its UTF-8 encoding (they  *)
(* only occur in a byte `str`).  A `str` and a `unicode` holding the same  *)
(* ASCII text compare equal, hash equal and match alike in Python 2, so    *)
(* the type of a string is read off its units.                             *)
(*                                                                         *)
(* Values.  Where Python code yields values of several types, the value   *)
(* is tagged with its type: [t |-> type, v |-> value].  None is None, a    *)
(* string s is Str(s), a regex match object is Match(groups) with groups   *)
(* the function from the group names to the captured strings, an           *)
(* EndpointId is tagged "EndpointId" and holds the record of its four      *)
(* slots, and a call that raises yields Raise(exception name).             *)
(***************************************************************************)
EXTENDS Integers, Sequences, FiniteSets, TLC

VARIABLES key, src, res, a, b, out, Py_HashSecret

vars == <<key, src, res, a, b, out, Py_HashSecret>>

None == [t |-> "NoneType", v |-> <<>>]

Str(s) == [t |-> "str", v |-> s]

Match(groups) == [t |-> "match", v |-> groups]

Raise(exc) == [t |-> "raise", v |-> exc]

-----------------------------------------------------------------------------
(* Python 2 string operations used by the module.                          *)

SLASH == "/"

HighBytes == {"0xC3", "0xA9"}

\* s[n:] for n >= 0 (empty when n >= len(s)).
slice_from(s, n) == IF n >= Len(s) THEN <<>> ELSE SubSeq(s, n + 1, Len(s))

\* s[:n] for n >= 0.
slice_to(s, n) == IF n >= Len(s) THEN s ELSE SubSeq(s, 1, n)

\* s.startswith(p)
startswith(s, p) == Len(p) <= Len(s) /\ slice_to(s, Len(p)) = p

\* s.endswith(p)
endswith(s, p) == Len(p) <= Len(s) /\ slice_from(s, Len(s) - Len(p)) = p

\* c in s, for a one-character c
contains(s, c) == \E i \in 1..Len(s) : s[i] = c

\* Faulty variant of rstrip: nothing is stripped.
rstrip_nothing(s, c) == s

\* s.rstrip(c), for a one-character c
RECURSIVE rstrip(_, _)
rstrip(s, c) ==
    IF Len(s) > 0 /\ s[Len(s)] = c THEN rstrip(slice_to(s, Len(s) - 1), c) ELSE s

\* Index of the first / last occurrence of c in s, 0 when there is none.
find(s, c) == IF contains(s, c) THEN CHOOSE i \in 1..Len(s) : s[i] = c /\ \A j \in 1..(i - 1) : s[j] # c ELSE 0

rfind(s, c) == IF contains(s, c) THEN CHOOSE i \in 1..Len(s) : s[i] = c /\ \A j \in (i + 1)..Len(s) : s[j] # c ELSE 0

\* s.split(c, 1): the list of at most two parts, cut at the first c.
split1(s, c) ==
    IF find(s, c) = 0 THEN <<s>>
    ELSE <<slice_to(s, find(s, c) - 1), slice_from(s, find(s, c))>>

\* s.rsplit(c, 1): the list of at most two parts, cut at the last c.
rsplit1(s, c) ==
    IF rfind(s, c) = 0 THEN <<s>>
    ELSE <<slice_to(s, rfind(s, c) - 1), slice_from(s, rfind(s, c))>>

\* fmt % args, for a format holding only %s conversions and string args.
RECURSIVE format(_, _)
format(fmt, args) ==
    IF Len(fmt) = 0 THEN <<>>
    ELSE IF Len(fmt) >= 2 /\ fmt[1] = "%" /\ fmt[2] = "s"
         THEN args[1] \o format(slice_from(fmt, 2), Tail(args))
         ELSE <<fmt[1]>> \o format(Tail(fmt), args)

\* sep.join(parts)
RECURSIVE join(_, _)
join(sep, parts) ==
    IF Len(parts) = 0 THEN <<>>
    ELSE IF Len(parts) = 1 THEN parts[1]
    ELSE parts[1] \o sep \o join(sep, Tail(parts))

\* The UTF-8 bytes of one unit of a unicode string.
utf8_unit(c) == IF c = "U+00E9" THEN <<"0xC3", "0xA9">> ELSE <<c>>

RECURSIVE utf8_bytes(_)
utf8_bytes(s) == IF Len(s) = 0 THEN <<>> ELSE utf8_unit(s[1]) \o utf8_bytes(Tail(s))

\* s.encode("utf8") in Python 2.  A unicode object is encoded.  A byte str
\* is first decoded with the default (ascii) codec, which raises
\* UnicodeDecodeError on a byte >= 0x80; an ASCII str is returned as is.
encode_utf8(s) ==
    IF \E i \in 1..Len(s) : s[i] \in HighBytes
    THEN Raise("UnicodeDecodeError")
    ELSE Str(utf8_bytes(s))

-----------------------------------------------------------------------------
(* The regular expressions.  A compiled pattern is a sequence of items: a  *)
(* literal, an alternation of literals (?:A|B), or a named group           *)
(* (?P<name>[^/]+).  Every pattern starts with ^ and is used with          *)
(* .match(), which anchors at the start of the string only.                *)

Lit(s) == [lit |-> s]

Alt(s1, s2) == [alt |-> <<s1, s2>>]

Grp(name) == [grp |-> name]

\* Whether literal p occurs in s at index pos (1-based).
has_at(s, pos, p) ==
    pos + Len(p) - 1 <= Len(s) /\ \A k \in 1..Len(p) : s[pos + k - 1] = p[k]

\* Length of the longest run of [^/] characters of s starting at pos.
RECURSIVE run_len(_, _)
run_len(s, pos) ==
    IF pos <= Len(s) /\ s[pos] # SLASH THEN 1 + run_len(s, pos + 1) ELSE 0

\* The backtracking matcher: items i.. of pat against s from pos, with the
\* groups captured so far.  A greedy group tries its longest run first.
RECURSIVE re_items(_, _, _, _, _)
RECURSIVE re_group(_, _, _, _, _, _)
re_items(pat, i, s, pos, groups) ==
    IF i > Len(pat) THEN Match(groups)
    ELSE IF "lit" \in DOMAIN pat[i]
         THEN IF has_at(s, pos, pat[i].lit)
              THEN re_items(pat, i + 1, s, pos + Len(pat[i].lit), groups)
              ELSE None
    ELSE IF "alt" \in DOMAIN pat[i]
         THEN LET first == IF has_at(s, pos, pat[i].alt[1])
                           THEN re_items(pat, i + 1, s, pos + Len(pat[i].alt[1]), groups)
                           ELSE None
              IN  IF first.t = "match" THEN first
                  ELSE IF has_at(s, pos, pat[i].alt[2])
                       THEN re_items(pat, i + 1, s, pos + Len(pat[i].alt[2]), groups)
                       ELSE None
    ELSE re_group(pat, i, s, pos, groups, run_len(s, pos))

re_group(pat, i, s, pos, groups, n) ==
    IF n < 1 THEN None
    ELSE LET got == re_items(pat, i + 1, s, pos + n,
                             groups @@ (pat[i].grp :> SubSeq(s, pos, pos + n - 1)))
         IN  IF got.t = "match" THEN got ELSE re_group(pat, i, s, pos, groups, n - 1)

\* pattern.match(s): the match object, or None.
re_match(pat, s) == re_items(pat, 1, s, 1, <<>>)

-----------------------------------------------------------------------------
(* The namespace layout.                                                   *)

ROOT_DIR == <<"/", "c", "a", "l", "i", "c", "o">>

FELIX_VERSION == <<"/", "v", "1">>

FELIX_STATUS_DIR ==
    ROOT_DIR \o <<"/", "f", "e", "l", "i", "x">> \o FELIX_VERSION \o <<"/", "h", "o", "s", "t">>

VERSION_DIR == ROOT_DIR \o FELIX_VERSION

CONFIG_DIR == VERSION_DIR \o <<"/", "c", "o", "n", "f", "i", "g">>

\* Faulty variant of HOST_DIR: the version segment is left out.
HOST_DIR_unversioned == ROOT_DIR \o <<"/", "h", "o", "s", "t">>

HOST_DIR == VERSION_DIR \o <<"/", "h", "o", "s", "t">>

POLICY_DIR == VERSION_DIR \o <<"/", "p", "o", "l", "i", "c", "y">>

PROFILE_DIR == POLICY_DIR \o <<"/", "p", "r", "o", "f", "i", "l", "e">>

RULES_KEY_RE ==
    <<Lit(PROFILE_DIR \o <<"/">>), Grp("profile_id"), Lit(<<"/", "r", "u", "l", "e", "s">>)>>

TAGS_KEY_RE ==
    <<Lit(PROFILE_DIR \o <<"/">>), Grp("profile_id"), Lit(<<"/", "t", "a", "g", "s">>)>>

ENDPOINT_KEY_RE ==
    <<Alt(HOST_DIR, FELIX_STATUS_DIR),
      Lit(<<"/">>), Grp("hostname"), Lit(<<"/">>),
      Lit(<<"w", "o", "r", "k", "l", "o", "a", "d", "/">>),
      Grp("orchestrator"), Lit(<<"/">>),
      Grp("workload_id"), Lit(<<"/">>),
      Lit(<<"e", "n", "d", "p", "o", "i", "n", "t", "/">>), Grp("endpoint_id")>>

\* Faulty variant of HOST_IP_KEY_RE: the literal leaf segment is left out.
HOST_IP_KEY_RE_without_leaf == <<Lit(HOST_DIR \o <<"/">>), Grp("hostname")>>

HOST_IP_KEY_RE ==
    <<Lit(HOST_DIR \o <<"/">>), Grp("hostname"), Lit(<<"/", "b", "i", "r", "d", "_", "i", "p">>)>>

IPAM_V4_CIDR_KEY_RE ==
    <<Lit(VERSION_DIR \o <<"/", "i", "p", "a", "m", "/", "v", "4", "/", "p", "o", "o", "l", "/">>),
      Grp("encoded_cidr")>>

-----------------------------------------------------------------------------
(* The key builders.                                                       *)

dir_for_host(hostname) == HOST_DIR \o format(<<"/", "%", "s">>, <<hostname>>)

dir_for_per_host_config(hostname) ==
    dir_for_host(hostname) \o <<"/", "c", "o", "n", "f", "i", "g">>

dir_for_felix_status(hostname) ==
    FELIX_STATUS_DIR \o format(<<"/", "%", "s">>, <<hostname>>)

key_for_last_status(hostname) ==
    dir_for_felix_status(hostname)
        \o <<"/", "l", "a", "s", "t", "_", "r", "e", "p", "o", "r", "t", "e", "d", "_", "s", "t", "a", "t", "u", "s">>

key_for_status(hostname) ==
    dir_for_felix_status(hostname) \o <<"/", "s", "t", "a", "t", "u", "s">>

key_for_endpoint(host, orchestrator, workload_id, endpoint_id) ==
    HOST_DIR \o format(<<"/", "%", "s", "/", "w", "o", "r", "k", "l", "o", "a", "d", "/", "%", "s",
                         "/", "%", "s", "/", "e", "n", "d", "p", "o", "i", "n", "t", "/", "%", "s">>,
                       <<host, orchestrator, workload_id, endpoint_id>>)

key_for_profile(profile_id) == PROFILE_DIR \o <<"/">> \o profile_id

key_for_profile_rules(profile_id) ==
    PROFILE_DIR \o format(<<"/", "%", "s", "/", "r", "u", "l", "e", "s">>, <<profile_id>>)

key_for_profile_tags(profile_id) ==
    PROFILE_DIR \o format(<<"/", "%", "s", "/", "t", "a", "g", "s">>, <<profile_id>>)

key_for_config(config_name) == CONFIG_DIR \o format(<<"/", "%", "s">>, <<config_name>>)

-----------------------------------------------------------------------------
(* EndpointId.                                                             *)

\* EndpointId.__init__: each slot holds the UTF-8 encoding of its argument
\* (intern() returns a string equal to its argument).  The constructor
\* raises when an encode raises.
EndpointId(host, orchestrator, workload, endpoint) ==
    IF \E s \in {host, orchestrator, workload, endpoint} : encode_utf8(s).t = "raise"
    THEN Raise("UnicodeDecodeError")
    ELSE [t |-> "EndpointId",
          v |-> [host |-> encode_utf8(host).v,
                 orchestrator |-> encode_utf8(orchestrator).v,
                 workload |-> encode_utf8(workload).v,
                 endpoint |-> encode_utf8(endpoint).v]]

\* isinstance(other, EndpointId)
IsEndpointId(other) == other.t = "EndpointId"

\* Faulty variant of path_for_status: orchestrator and workload change places.
path_for_status_swapped(self) ==
    join(<<"/">>, <<FELIX_STATUS_DIR, self.v.host,
                    <<"w", "o", "r", "k", "l", "o", "a", "d">>, self.v.workload, self.v.orchestrator,
                    <<"e", "n", "d", "p", "o", "i", "n", "t">>, self.v.endpoint>>)

path_for_status(self) ==
    join(<<"/">>, <<FELIX_STATUS_DIR, self.v.host,
                    <<"w", "o", "r", "k", "l", "o", "a", "d">>, self.v.orchestrator, self.v.workload,
                    <<"e", "n", "d", "p", "o", "i", "n", "t">>, self.v.endpoint>>)

\* Faulty variant of __eq__: the fields the hash leaves out are not compared.
EndpointId_eq_hashed_fields_only(self, other) ==
    IF ~IsEndpointId(other) THEN FALSE
    ELSE /\ other.v.endpoint = self.v.endpoint
         /\ other.v.workload = self.v.workload

\* EndpointId.__eq__(self, other).  The shortcut for `other is self` returns
\* what the comparison of the fields returns for one and the same object.
EndpointId_eq(self, other) ==
    IF ~IsEndpointId(other) THEN FALSE
    ELSE /\ other.v.endpoint = self.v.endpoint
         /\ other.v.workload = self.v.workload
         /\ other.v.host = self.v.host
         /\ other.v.orchestrator = self.v.orchestrator

\* EndpointId.__ne__(self, other)
EndpointId_ne(self, other) == ~EndpointId_eq(self, other)

-----------------------------------------------------------------------------
(* The key matchers.                                                       *)

get_profile_id_for_profile_dir(k) ==
    LET stripped == rstrip(k, SLASH)
        parts == rsplit1(stripped, SLASH)
    IN  IF ~contains(stripped, SLASH) THEN None
        ELSE IF parts[1] = PROFILE_DIR THEN Str(parts[2]) ELSE None

get_endpoint_id_from_key(k) ==
    LET m == re_match(ENDPOINT_KEY_RE, k)
    IN  IF m.t = "match"
        THEN EndpointId(m.v.hostname, m.v.orchestrator, m.v.workload_id, m.v.endpoint_id)
        ELSE None

\* Faulty variant of hostname_from_status_key: the status root is not checked.
hostname_from_status_key_any_root(k) ==
    IF ~endswith(k, <<"/", "s", "t", "a", "t", "u", "s">>)
    THEN None
    ELSE Str(split1(slice_from(k, Len(FELIX_STATUS_DIR \o <<"/">>)), SLASH)[1])

hostname_from_status_key(k) ==
    IF ~startswith(k, FELIX_STATUS_DIR) \/ ~endswith(k, <<"/", "s", "t", "a", "t", "u", "s">>)
    THEN None
    ELSE Str(split1(slice_from(k, Len(FELIX_STATUS_DIR \o <<"/">>)), SLASH)[1])

-----------------------------------------------------------------------------
(* hash().  EndpointId.__hash__ adds the builtin hashes of two byte        *)
(* strings.  The builtin is CPython 2's string_hash on a 64-bit build,     *)
(* over a C long x:  x = prefix ^ (ord(s[0]) << 7);  x = (1000003 * x) ^   *)
(* ord(c) for each c;  x ^= len(s);  x ^= suffix;  -1 becomes -2;  the     *)
(* empty string hashes to 0.  prefix and suffix are the process's hash     *)
(* secret: both 0, unless the interpreter was started with hash            *)
(* randomization (-R, PYTHONHASHSEED), which draws them at random.         *)
(*                                                                         *)
(* TLC's integers are 32 bits wide.  A C long is held as a word of four    *)
(* 16-bit limbs, least significant first, in two's complement; a Python    *)
(* integer is held as PyInt(neg, digits): its sign and its decimal digits,   *)
(* most significant first (28160084698 is PyInt(FALSE, <<2, 8, 1, 6, ...>>)).*)

\* The characters 0x20..0x5F and 0x61..0x7E, in code order.
PrintableLow ==
    <<
      " ", "!", "\"", "#", "$", "%", "&", "'", "(", ")", "*", "+", ",", "-", ".", "/",
      "0", "1", "2", "3", "4", "5", "6", "7", "8", "9", ":", ";", "<", "=", ">", "?",
      "@", "A", "B", "C", "D", "E", "F", "G", "H", "I", "J", "K", "L", "M", "N", "O",
      "P", "Q", "R", "S", "T", "U", "V", "W", "X", "Y", "Z", "[", "\\", "]", "^", "_"
    >>

PrintableHigh ==
    <<
      "a", "b", "c", "d", "e", "f", "g", "h", "i", "j", "k", "l", "m", "n", "o", "p",
      "q", "r", "s", "t", "u", "v", "w", "x", "y", "z", "{", "|", "}", "~"
    >>

ord(c) ==
    IF c = "0xC3" THEN 195
    ELSE IF c = "0xA9" THEN 169
    ELSE IF c = "U+00E9" THEN 233
    ELSE IF \E i \in 1..Len(PrintableLow) : PrintableLow[i] = c
         THEN 31 + (CHOOSE i \in 1..Len(PrintableLow) : PrintableLow[i] = c)
         ELSE 96 + (CHOOSE i \in 1..Len(PrintableHigh) : PrintableHigh[i] = c)

Limb == 2 ^ 16

RECURSIVE xor(_, _)
xor(x, y) ==
    IF x = 0 THEN y
    ELSE IF y = 0 THEN x
    ELSE ((x + y) % 2) + 2 * xor(x \div 2, y \div 2)

\* the C long of value n, 0 <= n < 2^31
word(n) == <<n % Limb, n \div Limb, 0, 0>>

word_xor(x, y) == <<xor(x[1], y[1]), xor(x[2], y[2]), xor(x[3], y[3]), xor(x[4], y[4])>>

\* x + y, wrapping at 64 bits
word_plus(x, y) ==
    LET t1 == x[1] + y[1]
        t2 == x[2] + y[2] + t1 \div Limb
        t3 == x[3] + y[3] + t2 \div Limb
        t4 == x[4] + y[4] + t3 \div Limb
    IN  <<t1 % Limb, t2 % Limb, t3 % Limb, t4 % Limb>>

\* c * x for 0 <= c < 2^15, wrapping at 64 bits
word_times(c, x) ==
    LET t1 == c * x[1]
        t2 == c * x[2] + t1 \div Limb
        t3 == c * x[3] + t2 \div Limb
        t4 == c * x[4] + t3 \div Limb
    IN  <<t1 % Limb, t2 % Limb, t3 % Limb, t4 % Limb>>

\* 1000003 * x, wrapping at 64 bits: 1000003 = 15 * 2^16 + 16963
word_times_1000003(x) ==
    LET high == word_times(15, x)
    IN  word_plus(word_times(16963, x), <<0, high[1], high[2], high[3]>>)

\* -x, wrapping at 64 bits
word_negate(x) ==
    word_plus(<<Limb - 1 - x[1], Limb - 1 - x[2], Limb - 1 - x[3], Limb - 1 - x[4]>>, word(1))

\* the loop of string_hash
RECURSIVE hash_units(_, _)
hash_units(x, s) ==
    IF Len(s) = 0 THEN x
    ELSE hash_units(word_xor(word_times_1000003(x), word(ord(s[1]))), Tail(s))

\* string_hash(s), a C long, for a byte string s
string_hash(s) ==
    IF Len(s) = 0 THEN word(0)
    ELSE LET x0 == word_xor(Py_HashSecret.prefix, word(ord(s[1]) * 128))
             x1 == word_xor(hash_units(x0, s), word(Len(s)))
             x2 == word_xor(x1, Py_HashSecret.suffix)
         IN  IF x2 = <<Limb - 1, Limb - 1, Limb - 1, Limb - 1>>
             THEN <<Limb - 2, Limb - 1, Limb - 1, Limb - 1>>
             ELSE x2

\* a Python integer
PyInt(neg, digits) == [t |-> "int", neg |-> neg, digits |-> digits]

\* the quotient q and remainder r of an unsigned word by 10
word_divmod10(x) ==
    LET t4 == x[4]
        t3 == (t4 % 10) * Limb + x[3]
        t2 == (t3 % 10) * Limb + x[2]
        t1 == (t2 % 10) * Limb + x[1]
    IN  [q |-> <<t1 \div 10, t2 \div 10, t3 \div 10, t4 \div 10>>, r |-> t1 % 10]

\* the decimal digits of an unsigned word, none for 0
RECURSIVE word_digits(_)
word_digits(x) ==
    IF x = word(0) THEN <<>>
    ELSE LET d == word_divmod10(x) IN word_digits(d.q) \o <<d.r>>

\* the Python integer of a C long
PyInt_FromLong(x) ==
    IF x = word(0) THEN PyInt(FALSE, <<0>>)
    ELSE IF x[4] >= Limb \div 2 THEN PyInt(TRUE, word_digits(word_negate(x)))
    ELSE PyInt(FALSE, word_digits(x))

\* hash(s) for a byte string s
hash(s) == PyInt_FromLong(string_hash(s))

\* p + q + c on decimal digits
RECURSIVE digits_add(_, _, _)
digits_add(p, q, c) ==
    IF Len(p) = 0 /\ Len(q) = 0 THEN (IF c = 0 THEN <<>> ELSE <<c>>)
    ELSE LET dp == IF Len(p) = 0 THEN 0 ELSE p[Len(p)]
             dq == IF Len(q) = 0 THEN 0 ELSE q[Len(q)]
             t  == dp + dq + c
         IN  digits_add(SubSeq(p, 1, Len(p) - 1), SubSeq(q, 1, Len(q) - 1), t \div 10)
                \o <<t % 10>>

\* p - q - c on decimal digits, for p >= q + c
RECURSIVE digits_sub(_, _, _)
digits_sub(p, q, c) ==
    IF Len(p) = 0 THEN <<>>
    ELSE LET dq == IF Len(q) = 0 THEN 0 ELSE q[Len(q)]
             t  == p[Len(p)] - dq - c
         IN  digits_sub(SubSeq(p, 1, Len(p) - 1), SubSeq(q, 1, Len(q) - 1),
                        IF t < 0 THEN 1 ELSE 0)
                \o <<(t + 10) % 10>>

\* p without its leading zeros
RECURSIVE digits_strip(_)
digits_strip(p) == IF Len(p) > 1 /\ p[1] = 0 THEN digits_strip(Tail(p)) ELSE p

\* p < q on decimal digits without leading zeros
digits_less(p, q) ==
    \/ Len(p) < Len(q)
    \/ /\ Len(p) = Len(q)
       /\ \E i \in 1..Len(p) : p[i] < q[i] /\ \A j \in 1..(i - 1) : p[j] = q[j]

\* x + y on Python integers (an int sum that overflows is a long)
int_add(x, y) ==
    IF x.neg = y.neg THEN PyInt(x.neg, digits_add(x.digits, y.digits, 0))
    ELSE IF x.digits = y.digits THEN PyInt(FALSE, <<0>>)
    ELSE IF digits_less(x.digits, y.digits)
         THEN PyInt(y.neg, digits_strip(digits_sub(y.digits, x.digits, 0)))
         ELSE PyInt(x.neg, digits_strip(digits_sub(x.digits, y.digits, 0)))

\* EndpointId.__hash__(self)
EndpointId_hash(self) == int_add(hash(self.v.endpoint), hash(self.v.workload))

-----------------------------------------------------------------------------
(* The inputs.  Identifier arguments are drawn from Ids: two well-formed   *)
(* ASCII identifiers (one of them spelled like the status leaf), a         *)
(* well-formed non-ASCII (unicode) identifier, and two malformed ones      *)
(* (empty, holding a '/').  A key read from the store is a root prefix (or *)
(* the empty string) extended by at most MaxAppend pieces, or a built key  *)
(* extended the same way.                                                  *)

MaxAppend == 2

\* The hash secret of a process started without hash randomization.
NoHashSecret == [prefix |-> word(0), suffix |-> word(0)]

\* The hash secrets a process may start with: none, and a randomized one
\* under which string_hash reaches -1 on 'h1'.
HashSecrets ==
    {NoHashSecret,
     [prefix |-> <<39612, 4660, 49374, 23063>>, suffix |-> <<55000, 33858, 26683, 62237>>]}

Ids ==
    {<<"h", "1">>, <<"s", "t", "a", "t", "u", "s">>, <<"U+00E9">>, <<>>, <<"a", "/", "b">>}

\* The arguments EndpointIds are constructed from directly.
IdArgs == Ids \ {<<"s", "t", "a", "t", "u", "s">>}

Roots ==
    {<<>>, VERSION_DIR, HOST_DIR, FELIX_STATUS_DIR, PROFILE_DIR,
     VERSION_DIR \o <<"/", "i", "p", "a", "m", "/", "v", "4", "/", "p", "o", "o", "l">>,
     ROOT_DIR \o <<"/", "v", "2">>,
     <<"/", "f", "o", "o", "/", "b", "a", "r">>}

Pieces ==
    {<<"/">>, <<"x">>,
     <<"/", "s", "t", "a", "t", "u", "s">>,
     <<"/", "r", "u", "l", "e", "s">>,
     <<"/", "t", "a", "g", "s">>,
     <<"/", "b", "i", "r", "d", "_", "i", "p">>}

\* A well-formed identifier component: non-empty, no '/'.
WellFormed(s) == Len(s) > 0 /\ \A i \in 1..Len(s) : s[i] # SLASH

Unset == [matcher |-> "none"]

Idle == [op |-> "none"]

Source(builder, args) == [builder |-> builder, args |-> args, tail |-> <<>>, n |-> 0]

-----------------------------------------------------------------------------
(* The state machine of the codec.  key is the key string in hand, src     *)
(* records how it was made (history), res holds the last matcher applied   *)
(* to it and what it returned.  A run makes one key, by a builder or from  *)
(* the store, extends it, and applies a matcher to it.                     *)

Init ==
    /\ key = <<>>
    /\ src = Source("none", <<>>)
    /\ res = Unset
    /\ a = None
    /\ b = None
    /\ out = Idle
    /\ Py_HashSecret = NoHashSecret

Fresh == src.builder = "none"

Produce(builder, args, path) ==
    /\ key' = path
    /\ src' = Source(builder, args)
    /\ res' = Unset
    /\ UNCHANGED <<a, b, out, Py_HashSecret>>

Apply(matcher, value) ==
    /\ ~Fresh
    /\ res = Unset
    /\ res' = [matcher |-> matcher, value |-> value]
    /\ UNCHANGED <<key, src, a, b, out, Py_HashSecret>>

DirForHost ==
    /\ Fresh
    /\ \E h \in Ids : Produce("dir_for_host", <<h>>, dir_for_host(h))

DirForPerHostConfig ==
    /\ Fresh
    /\ \E h \in Ids : Produce("dir_for_per_host_config", <<h>>, dir_for_per_host_config(h))

DirForFelixStatus ==
    /\ Fresh
    /\ \E h \in Ids : Produce("dir_for_felix_status", <<h>>, dir_for_felix_status(h))

KeyForLastStatus ==
    /\ Fresh
    /\ \E h \in Ids : Produce("key_for_last_status", <<h>>, key_for_last_status(h))

KeyForStatus ==
    /\ Fresh
    /\ \E h \in Ids : Produce("key_for_status", <<h>>, key_for_status(h))

KeyForEndpoint ==
    /\ Fresh
    /\ \E h \in Ids, o \in Ids, w \in Ids, e \in Ids :
        Produce("key_for_endpoint", <<h, o, w, e>>, key_for_endpoint(h, o, w, e))

KeyForProfile ==
    /\ Fresh
    /\ \E p \in Ids : Produce("key_for_profile", <<p>>, key_for_profile(p))

KeyForProfileRules ==
    /\ Fresh
    /\ \E p \in Ids : Produce("key_for_profile_rules", <<p>>, key_for_profile_rules(p))

KeyForProfileTags ==
    /\ Fresh
    /\ \E p \in Ids : Produce("key_for_profile_tags", <<p>>, key_for_profile_tags(p))

KeyForConfig ==
    /\ Fresh
    /\ \E c \in Ids : Produce("key_for_config", <<c>>, key_for_config(c))

PathForStatus ==
    /\ Fresh
    /\ \E h \in Ids, o \in Ids, w \in Ids, e \in Ids :
        /\ IsEndpointId(EndpointId(h, o, w, e))
        /\ Produce("path_for_status", <<h, o, w, e>>, path_for_status(EndpointId(h, o, w, e)))

\* A key written by any writer arrives from the store.
StoreKey ==
    /\ Fresh
    /\ \E r \in Roots : Produce("store", <<r>>, r)

Extend ==
    /\ ~Fresh
    /\ res = Unset
    /\ src.n < MaxAppend
    /\ \E p \in Pieces :
        /\ key' = key \o p
        /\ src' = [src EXCEPT !.tail = @ \o p, !.n = @ + 1]
        /\ UNCHANGED <<res, a, b, out, Py_HashSecret>>

MatchRules == Apply("RULES_KEY_RE", re_match(RULES_KEY_RE, key))

MatchTags == Apply("TAGS_KEY_RE", re_match(TAGS_KEY_RE, key))

MatchHostIp == Apply("HOST_IP_KEY_RE", re_match(HOST_IP_KEY_RE, key))

MatchIpamV4Cidr == Apply("IPAM_V4_CIDR_KEY_RE", re_match(IPAM_V4_CIDR_KEY_RE, key))

GetProfileIdForProfileDir ==
    Apply("get_profile_id_for_profile_dir", get_profile_id_for_profile_dir(key))

GetEndpointIdFromKey ==
    Apply("get_endpoint_id_from_key", get_endpoint_id_from_key(key))

HostnameFromStatusKey ==
    Apply("hostname_from_status_key", hostname_from_status_key(key))

Next ==
    \/ DirForHost \/ DirForPerHostConfig \/ DirForFelixStatus
    \/ KeyForLastStatus \/ KeyForStatus \/ KeyForEndpoint
    \/ KeyForProfile \/ KeyForProfileRules \/ KeyForProfileTags \/ KeyForConfig
    \/ PathForStatus \/ StoreKey \/ Extend
    \/ MatchRules \/ MatchTags \/ MatchHostIp \/ MatchIpamV4Cidr
    \/ GetProfileIdForProfileDir \/ GetEndpointIdFromKey \/ HostnameFromStatusKey

Spec == Init /\ [][Next]_vars

-----------------------------------------------------------------------------
(* The state machine of the EndpointId value type: two values a and b are  *)
(* constructed (b may stay None, an object that is no EndpointId) and one  *)
(* of the special methods of a is called; out holds the call's result.     *)

NewEndpointId ==
    /\ a = None
    /\ \E h \in IdArgs, o \in IdArgs, w \in IdArgs, e \in IdArgs : a' = EndpointId(h, o, w, e)
    /\ UNCHANGED <<key, src, res, b, out, Py_HashSecret>>

OtherEndpointId ==
    /\ IsEndpointId(a)
    /\ b = None
    /\ out = Idle
    /\ \E h \in IdArgs, o \in IdArgs, w \in IdArgs, e \in IdArgs : b' = EndpointId(h, o, w, e)
    /\ UNCHANGED <<key, src, res, a, out, Py_HashSecret>>

Called(op, value) ==
    /\ IsEndpointId(a)
    /\ out = Idle
    /\ out' = [op |-> op, value |-> value]
    /\ UNCHANGED <<key, src, res, a, b, Py_HashSecret>>

Eq == Called("__eq__", EndpointId_eq(a, b))

Ne == Called("__ne__", EndpointId_ne(a, b))

Hash == Called("__hash__", EndpointId_hash(a))

NextId == NewEndpointId \/ OtherEndpointId \/ Eq \/ Ne \/ Hash

\* The value type is exercised in a process started with or without hash
\* randomization; the codec above never hashes.
InitId ==
    /\ key = <<>>
    /\ src = Source("none", <<>>)
    /\ res = Unset
    /\ a = None
    /\ b = None
    /\ out = Idle
    /\ Py_HashSecret \in HashSecrets

SpecId == InitId /\ [][NextId]_vars

-----------------------------------------------------------------------------
(* Properties.                                                             *)

\* The key in hand is exactly what the named builder returned.
BuiltBy(builders) == src.builder \in builders /\ src.n = 0

\* The key in hand is what the named builder returned, followed by tail.
BuiltThen(builder, tail) == src.builder = builder /\ src.tail = tail

Applied(matcher) == res.matcher = matcher

EndpointFields == {"host", "orchestrator", "workload", "endpoint"}

StatusLeaf == <<"/", "s", "t", "a", "t", "u", "s">>

\* C1: for well-formed host, orchestrator, workload_id and endpoint_id,
\* get_endpoint_id_from_key returns an EndpointId equal to
\* EndpointId(host, orchestrator, workload_id, endpoint_id) both on
\* key_for_endpoint(...) and on EndpointId(...).path_for_status.
C1_EndpointRoundTrip ==
    (/\ BuiltBy({"key_for_endpoint", "path_for_status"})
     /\ \A i \in 1..4 : WellFormed(src.args[i])
     /\ Applied("get_endpoint_id_from_key"))
    => /\ IsEndpointId(res.value)
       /\ EndpointId_eq(res.value,
                        EndpointId(src.args[1], src.args[2], src.args[3], src.args[4]))

\* C2: for a well-formed profile_id p, get_profile_id_for_profile_dir
\* returns p on key_for_profile(p) and on key_for_profile(p) + '/', and None
\* on key_for_profile_rules(p) and key_for_profile_tags(p); RULES_KEY_RE
\* matches key_for_profile_rules(p) with profile_id = p and TAGS_KEY_RE
\* matches key_for_profile_tags(p) with profile_id = p.
C2_ProfileCodec ==
    /\ (/\ BuiltThen("key_for_profile", <<>>) \/ BuiltThen("key_for_profile", <<"/">>)
        /\ WellFormed(src.args[1])
        /\ Applied("get_profile_id_for_profile_dir"))
       => res.value = Str(src.args[1])
    /\ (/\ BuiltBy({"key_for_profile_rules", "key_for_profile_tags"})
        /\ WellFormed(src.args[1])
        /\ Applied("get_profile_id_for_profile_dir"))
       => res.value = None
    /\ (/\ BuiltBy({"key_for_profile_rules"})
        /\ WellFormed(src.args[1])
        /\ Applied("RULES_KEY_RE"))
       => res.value = Match([profile_id |-> src.args[1]])
    /\ (/\ BuiltBy({"key_for_profile_tags"})
        /\ WellFormed(src.args[1])
        /\ Applied("TAGS_KEY_RE"))
       => res.value = Match([profile_id |-> src.args[1]])

C2_Witness ==
    /\ BuiltThen("key_for_profile", <<"/">>)
    /\ src.args[1] = <<"U+00E9">>
    /\ Applied("get_profile_id_for_profile_dir")
    /\ res.value = Str(<<"U+00E9">>)

\* k is FELIX_STATUS_DIR + '/' + h + <optional '/'-separated segments> +
\* '/status', with h a well-formed segment.
IsStatusKeyOf(k, h) ==
    /\ WellFormed(h)
    /\ startswith(k, FELIX_STATUS_DIR \o <<"/">> \o h \o <<"/">>)
    /\ endswith(k, StatusLeaf)
    /\ Len(k) >= Len(FELIX_STATUS_DIR) + 1 + Len(h) + Len(StatusLeaf)

\* The strings that follow FELIX_STATUS_DIR + '/' in k.
HostCandidates(k) ==
    {SubSeq(k, Len(FELIX_STATUS_DIR) + 2, j) : j \in (Len(FELIX_STATUS_DIR) + 2)..Len(k)}

\* k is under the status root: FELIX_STATUS_DIR, '/' and a non-empty host
\* segment, whatever follows.
UnderStatusRoot(k) ==
    /\ startswith(k, FELIX_STATUS_DIR \o <<"/">>)
    /\ Len(k) >= Len(FELIX_STATUS_DIR) + 2
    /\ k[Len(FELIX_STATUS_DIR) + 2] # SLASH

\* C3: hostname_from_status_key(key) returns h when key is a status key of
\* host h, and None for every key that lacks the '/status' suffix or is
\* not under the status root.
C3_StatusHostname ==
    Applied("hostname_from_status_key")
    => /\ \A h \in HostCandidates(key) : IsStatusKeyOf(key, h) => res.value = Str(h)
       /\ (~endswith(key, StatusLeaf) \/ ~UnderStatusRoot(key)) => res.value = None

\* C4: on a key that starts neither with '/calico/v1/' nor with
\* '/calico/felix/v1/host', every matcher returns None and none raises.
C4_UnrecognizedIsAbsent ==
    (/\ res # Unset
     /\ ~startswith(key, <<"/", "c", "a", "l", "i", "c", "o", "/", "v", "1", "/">>)
     /\ ~startswith(key, <<"/", "c", "a", "l", "i", "c", "o", "/", "f", "e", "l", "i", "x",
                           "/", "v", "1", "/", "h", "o", "s", "t">>))
    => res.value = None

C4_Witness ==
    /\ Applied("hostname_from_status_key")
    /\ key = <<"/", "f", "o", "o", "/", "b", "a", "r", "/", "s", "t", "a", "t", "u", "s">>
    /\ res.value = None

\* C5: x.path_for_status equals FELIX_STATUS_DIR followed by the part of
\* key_for_endpoint(x.host, x.orchestrator, x.workload, x.endpoint) after
\* its HOST_DIR prefix, for every EndpointId x.
C5_PathForStatusShape ==
    BuiltBy({"path_for_status"})
    => LET x == EndpointId(src.args[1], src.args[2], src.args[3], src.args[4])
       IN  key = FELIX_STATUS_DIR
                   \o slice_from(key_for_endpoint(x.v.host, x.v.orchestrator,
                                                  x.v.workload, x.v.endpoint),
                                 Len(HOST_DIR))

C5_Witness ==
    /\ BuiltBy({"path_for_status"})
    /\ src.args = <<<<"U+00E9">>, <<"a", "/", "b">>, <<>>, <<"h", "1">>>>
    /\ key = FELIX_STATUS_DIR
               \o <<"/", "0xC3", "0xA9", "/", "w", "o", "r", "k", "l", "o", "a", "d", "/",
                    "a", "/", "b", "/", "/", "e", "n", "d", "p", "o", "i", "n", "t", "/", "h", "1">>

FieldsEqual(x, y) == \A f \in EndpointFields : x.v[f] = y.v[f]

\* C6: a == b exactly when the four fields are pairwise equal, a != b is
\* its negation, a == b implies hash(a) = hash(b), and the hash depends on
\* the endpoint and workload fields only.
C6_HashConsistentWithEq ==
    (IsEndpointId(a) /\ IsEndpointId(b))
    => /\ out.op = "__eq__" => out.value = FieldsEqual(a, b)
       /\ out.op = "__ne__" => out.value = ~FieldsEqual(a, b)
       /\ EndpointId_eq(a, b) => EndpointId_hash(a) = EndpointId_hash(b)
       /\ (/\ out.op = "__hash__"
           /\ a.v.endpoint = b.v.endpoint
           /\ a.v.workload = b.v.workload)
          => out.value = EndpointId_hash(b)

C6_Witness ==
    /\ IsEndpointId(a)
    /\ IsEndpointId(b)
    /\ out.op = "__eq__"
    /\ out.value = FALSE
    /\ a.v.endpoint = b.v.endpoint
    /\ a.v.workload = b.v.workload
    /\ a.v.orchestrator = b.v.orchestrator
    /\ a.v.host # b.v.host
    /\ EndpointId_hash(a) = EndpointId_hash(b)

PatternMatchers ==
    {"RULES_KEY_RE", "TAGS_KEY_RE", "get_profile_id_for_profile_dir",
     "get_endpoint_id_from_key", "HOST_IP_KEY_RE", "IPAM_V4_CIDR_KEY_RE"}

Matchers == PatternMatchers \cup {"hostname_from_status_key"}

MatcherResult(matcher, k) ==
    CASE matcher = "RULES_KEY_RE" -> re_match(RULES_KEY_RE, k)
      [] matcher = "TAGS_KEY_RE" -> re_match(TAGS_KEY_RE, k)
      [] matcher = "get_profile_id_for_profile_dir" -> get_profile_id_for_profile_dir(k)
      [] matcher = "get_endpoint_id_from_key" -> get_endpoint_id_from_key(k)
      [] matcher = "HOST_IP_KEY_RE" -> re_match(HOST_IP_KEY_RE, k)
      [] matcher = "IPAM_V4_CIDR_KEY_RE" -> re_match(IPAM_V4_CIDR_KEY_RE, k)
      [] matcher = "hostname_from_status_key" -> hostname_from_status_key(k)

\* The matchers other than the one applied that recognise the key in hand
\* (do not return None on it).
OtherRecognisers == {m \in Matchers \ {res.matcher} : MatcherResult(m, key) # None}

\* v is a match (a value other than None, returned and not raised).
IsMatch(v) == v.t \notin {"NoneType", "raise"}

\* C7 as claimed: for every key, at most one of the seven matchers returns
\* a match: when the matcher applied returns one, no other matcher does.
C7_AtMostOneMatcher ==
    (res # Unset /\ IsMatch(res.value))
    => \A m \in Matchers \ {res.matcher} : ~IsMatch(MatcherResult(m, key))

\* C7 as amended: for every key, at most one of the six pattern matchers
\* (rules, tags, profile directory, endpoint, host IP, IPAM v4 pool)
\* returns a match, and the only one of them hostname_from_status_key can
\* match together with is the endpoint matcher.  (A matcher whose pattern
\* matches and whose result then raises counts as matching here.)
C7_PatternMatchersDisjoint ==
    (res # Unset /\ res.value # None)
    => \A m \in OtherRecognisers :
          {m, res.matcher} = {"hostname_from_status_key", "get_endpoint_id_from_key"}

C7_Witness ==
    /\ BuiltThen("path_for_status", StatusLeaf)
    /\ Applied("get_endpoint_id_from_key")
    /\ IsEndpointId(res.value)
    /\ OtherRecognisers = {"hostname_from_status_key"}

Builders ==
    {"dir_for_host", "dir_for_per_host_config", "dir_for_felix_status",
     "key_for_last_status", "key_for_status", "key_for_endpoint", "key_for_profile",
     "key_for_profile_rules", "key_for_profile_tags", "key_for_config", "path_for_status"}

StatusBuilders ==
    {"dir_for_felix_status", "key_for_last_status", "key_for_status", "path_for_status"}

\* C8 as claimed: every path a key builder produces starts with
\* ROOT_DIR + FELIX_VERSION = '/calico/v1'.
C8_VersionedRootPrefix ==
    BuiltBy(Builders)
    => startswith(key, <<"/", "c", "a", "l", "i", "c", "o", "/", "v", "1">>)

\* C8 as amended: every path a key builder produces starts with ROOT_DIR =
\* '/calico' and carries the schema version segment: the paths of the
\* status builders start with ROOT_DIR + '/felix' + FELIX_VERSION =
\* '/calico/felix/v1', those of every other builder with
\* ROOT_DIR + FELIX_VERSION = '/calico/v1'.
C8_RootAndVersionPrefix ==
    /\ BuiltBy(Builders \ StatusBuilders)
       => startswith(key, <<"/", "c", "a", "l", "i", "c", "o", "/", "v", "1", "/">>)
    /\ BuiltBy(StatusBuilders)
       => startswith(key, <<"/", "c", "a", "l", "i", "c", "o", "/", "f", "e", "l", "i", "x",
                            "/", "v", "1", "/">>)

C8_Witness ==
    /\ BuiltBy({"key_for_last_status"})
    /\ src.args[1] = <<"h", "1">>
    /\ key = <<"/", "c", "a", "l", "i", "c", "o", "/", "f", "e", "l", "i", "x", "/", "v", "1",
               "/", "h", "o", "s", "t", "/", "h", "1", "/", "l", "a", "s", "t", "_",
               "r", "e", "p", "o", "r", "t", "e", "d", "_", "s", "t", "a", "t", "u", "s">>

\* Two keys spell the same text: a unicode key and a byte key are compared
\* by their UTF-8 bytes, the reading that favours C9 (Python 2 itself finds
\* a non-ASCII unicode key and its UTF-8 byte str unequal).
SameText(k1, k2) == utf8_bytes(k1) = utf8_bytes(k2)

\* C9: a key RULES_KEY_RE matches with profile_id p is key_for_profile_rules(p),
\* a key TAGS_KEY_RE matches with profile_id p is key_for_profile_tags(p), and a
\* key for which get_endpoint_id_from_key returns x is
\* key_for_endpoint(x.host, x.orchestrator, x.workload, x.endpoint) or
\* x.path_for_status.
C9_DecodeThenEncode ==
    /\ (Applied("RULES_KEY_RE") /\ res.value # None)
       => SameText(key, key_for_profile_rules(res.value.v.profile_id))
    /\ (Applied("TAGS_KEY_RE") /\ res.value # None)
       => SameText(key, key_for_profile_tags(res.value.v.profile_id))
    /\ (Applied("get_endpoint_id_from_key") /\ IsEndpointId(res.value))
       => \/ SameText(key, key_for_endpoint(res.value.v.host, res.value.v.orchestrator,
                                            res.value.v.workload, res.value.v.endpoint))
          \/ SameText(key, path_for_status(res.value))

\* C10: every identifier a matcher extracts is non-empty and holds no '/'.
C10_IdentifiersWellFormed ==
    res # Unset
    => /\ res.value.t = "str" => WellFormed(res.value.v)
       /\ res.value.t = "match" => \A g \in DOMAIN res.value.v : WellFormed(res.value.v[g])
       /\ res.value.t = "EndpointId" => \A f \in EndpointFields : WellFormed(res.value.v[f])

=============================================================================
